---- MODULE Spec2Model ----
(***************************************************************************)
(* Model of calculate_efficiency_stats (src/app.py) and of the way the     *)
(* dashboard script invokes it (monthly view, daily view, script rerun).   *)
(*                                                                         *)
(* Encoding                                                                *)
(*   timestamps   whole seconds since midnight of date 0; Null is the      *)
(*                missing value the code tests with "not start"            *)
(*   dates        whole days (timestamp \div 86400)                        *)
(*   technician   a string; NoTech is the falsy label (None or "")         *)
(*   Duration_Min kept in seconds (the code's value times 60)              *)
(*   percentages  tenths of a percent (907 is 90.7), the result of         *)
(*                round(x, 1); per-technician percentages carry a kind     *)
(*                because pandas yields inf / nan on a zero denominator    *)
(***************************************************************************)
EXTENDS Integers, Sequences, FiniteSets, TLC

\* ------------------------------------------------------------------ bounds
MaxRows == 2

\* --------------------------------------------------------------- encodings
Null == 0 - 1
NoTech == ""
SecsPerDay == 24 * 3600
SecsPerMin == 60

HMS(h, m, s) == h * 3600 + m * 60 + s
At(day, h, m, s) == day * SecsPerDay + HMS(h, m, s)

\* app.py:263-265, the constants the script passes
DAY_START_CALC == HMS(8, 0, 0)
DAY_END_CALC == HMS(17, 0, 0)
TOTAL_WORK_MINS_PER_DAY == 540

\* app.py:127, the minimum-activity threshold, in minutes
MinActiveMins == 5

Visit(tech, st, arr, dep) ==
  [LeadTechnician |-> tech, StartedTravel |-> st,
   ArrivalTimeReal |-> arr, DepartureTimeReal |-> dep]

\* The visit records the datasets are drawn from.
Visits ==
  { Visit("A", At(0, 8, 50, 0), At(0, 9, 0, 0), At(0, 9, 40, 0)),
    Visit("A", At(0, 9, 0, 0), At(0, 10, 0, 0), Null),
    Visit("A", Null, At(0, 9, 30, 0), At(0, 9, 45, 0)),
    Visit("A", At(0, 9, 40, 0), At(0, 9, 30, 0), At(0, 9, 35, 0)),
    Visit("A", At(0, 9, 40, 0), At(0, 9, 30, 0), Null),
    Visit("B", At(0, 8, 50, 0), At(0, 8, 52, 0), At(0, 8, 52, 0)),
    Visit("B", At(0, 9, 0, 0), At(0, 9, 10, 30), Null),
    Visit("B", At(1, 9, 0, 0), At(1, 9, 10, 30), Null),
    Visit("B", At(1, 7, 0, 0), At(1, 7, 30, 0), Null),
    Visit(NoTech, At(0, 16, 30, 0), At(0, 18, 0, 0), At(1, 8, 30, 0)) }

Config(s, e, t) ==
  [day_start_calc |-> s, day_end_calc |-> e, total_work_mins_per_day |-> t]

\* The configurations a caller may pass: the script's constants, a policy
\* knob that differs from the window length, an inverted window, and a
\* zero total.
Configs ==
  { Config(DAY_START_CALC, DAY_END_CALC, TOTAL_WORK_MINS_PER_DAY),
    Config(DAY_START_CALC, DAY_END_CALC, 480),
    Config(DAY_END_CALC, DAY_START_CALC, TOTAL_WORK_MINS_PER_DAY),
    Config(DAY_START_CALC, DAY_END_CALC, 0) }

RECURSIVE SeqsUpTo(_, _)
SeqsUpTo(S, n) ==
  IF n = 0 THEN { <<>> }
  ELSE LET shorter == SeqsUpTo(S, n - 1)
       IN shorter \cup { Append(q, x) : q \in shorter, x \in S }

Datasets == SeqsUpTo(Visits, MaxRows)

\* ----------------------------------------------------------------- helpers
Max(a, b) == IF a >= b THEN a ELSE b
Min(a, b) == IF a <= b THEN a ELSE b
Abs(a) == IF a < 0 THEN 0 - a ELSE a

RECURSIVE SumOver(_, _)
\* sum of F(x) over the elements of a sequence; F is passed as a function
SumOver(q, F) ==
  IF q = <<>> THEN 0 ELSE F[Head(q)] + SumOver(Tail(q), F)

Range(q) == { q[i] : i \in 1..Len(q) }

\* start.date()
DateOf(t) == t \div SecsPerDay

\* datetime.combine(task_date, day_x_calc.time())
Combine(date, tod) == date * SecsPerDay + tod

\* order of the technician labels under pandas' sorted groupby
TechRank(t) == CASE t = "A" -> 1 [] t = "B" -> 2 [] OTHER -> 3

\* ------------------------------------------------- interval extraction
\* app.py:91, the label a falsy LeadTechnician is replaced by
TechLabel(row) ==
  IF row.LeadTechnician = NoTech THEN "Unknown" ELSE row.LeadTechnician

\* the guard with the comparison weakened: a zero-length pair is kept
DroppedOnlyInverted(start, end) == start = Null \/ end = Null \/ start > end

\* app.py:94, the guard of add_interval: TRUE when the pair is dropped
Dropped(start, end) == start = Null \/ end = Null \/ start >= end

\* the row keyed by the date the interval ends on
add_interval_EndDate(tech, start, end, task) ==
  IF Dropped(start, end) THEN <<>>
  ELSE << [Technician |-> tech, Start |-> start, End |-> end,
           Task |-> task, Date |-> DateOf(end)] >>

\* app.py:93-104, add_interval: the rows appended for one timestamp pair
add_interval(tech, start, end, task) ==
  IF Dropped(start, end) THEN <<>>
  ELSE << [Technician |-> tech, Start |-> start, End |-> end,
           Task |-> task, Date |-> DateOf(start)] >>

\* app.py:90-114, one iteration of the loop over df.iterrows()
RowIntervals(row) ==
  add_interval(TechLabel(row), row.StartedTravel, row.ArrivalTimeReal, "Travel")
  \o add_interval(TechLabel(row), row.ArrivalTimeReal, row.DepartureTimeReal,
                  "Service")

RECURSIVE Flatten(_)
\* app.py:85-114, rows after the whole loop
Flatten(d) ==
  IF d = <<>> THEN <<>> ELSE RowIntervals(Head(d)) \o Flatten(Tail(d))

\* ------------------------------------------------ minimum-activity filter
\* app.py:121-123, the Duration_Min column (here in seconds)
WithDuration(r) ==
  [Technician |-> r.Technician, Start |-> r.Start, End |-> r.End,
   Task |-> r.Task, Date |-> r.Date, Duration_Min |-> r.End - r.Start]

AddDurations(frame) == [i \in 1..Len(frame) |-> WithDuration(frame[i])]

KeyOf(r) == <<r.Technician, r.Date>>

InGroup(frame, key) == SelectSeq(frame, LAMBDA r : KeyOf(r) = key)

\* app.py:124-126, tech_daily_active: the summed Duration_Min of one group
DailyActive(frame, key) ==
  SumOver(InGroup(frame, key), [r \in Range(frame) |-> r.Duration_Min])

\* the threshold taken as exclusive
MeetsThresholdStrict(duration) == duration > MinActiveMins * SecsPerMin

\* app.py:127, the rows of tech_daily_active kept in valid_threshold
MeetsThreshold(duration) == duration >= MinActiveMins * SecsPerMin

ValidKeys(frame) ==
  { key \in { KeyOf(r) : r \in Range(frame) } :
      MeetsThreshold(DailyActive(frame, key)) }

\* app.py:130-132, the inner merge keeps the left rows, in order, whose key
\* is in valid_threshold
MergeValid(frame) ==
  LET valid == ValidKeys(frame)
  IN SelectSeq(frame, LAMBDA r : KeyOf(r) \in valid)

\* ------------------------------------------------------ group iteration
KeyBefore(a, b) ==
  \/ TechRank(a[1]) < TechRank(b[1])
  \/ TechRank(a[1]) = TechRank(b[1]) /\ a[2] < b[2]

RECURSIVE SortKeys(_)
\* app.py:143, groupby sorts the group keys
SortKeys(S) ==
  IF S = {} THEN <<>>
  ELSE LET first == CHOOSE k \in S : \A o \in S \ {k} : KeyBefore(k, o)
       IN <<first>> \o SortKeys(S \ {first})

GroupKeys(frame) == SortKeys({ KeyOf(r) : r \in Range(frame) })

RECURSIVE InsertByStart(_, _)
InsertByStart(sorted, r) ==
  IF sorted = <<>> THEN <<r>>
  ELSE IF r.Start < Head(sorted).Start THEN <<r>> \o sorted
  ELSE <<Head(sorted)>> \o InsertByStart(Tail(sorted), r)

RECURSIVE SortByStart(_)
\* app.py:145, tech_tasks.sort_values("Start"); rows with equal Start keep
\* their order (their order does not change the walk's totals)
SortByStart(frame) ==
  IF frame = <<>> THEN <<>>
  ELSE InsertByStart(SortByStart(SubSeq(frame, 1, Len(frame) - 1)),
                     frame[Len(frame)])

\* app.py:156-170, one iteration of the loop over a group's tasks
WalkTask(acc, task, d_start_c, d_end_c) ==
  LET t_start_c == Max(task.Start, d_start_c)
      t_end_c == Min(task.End, d_end_c)
      duration == t_end_c - t_start_c
  IN IF t_start_c < t_end_c
     THEN [idle |-> acc.idle + (IF t_start_c > acc.current_time
                                THEN t_start_c - acc.current_time ELSE 0),
           travel |-> acc.travel + (IF task.Task = "Travel" THEN duration ELSE 0),
           service |-> acc.service + (IF task.Task = "Travel" THEN 0 ELSE duration),
           current_time |-> Max(acc.current_time, t_end_c)]
     ELSE acc

RECURSIVE Walk(_, _, _, _)
Walk(acc, tasks, d_start_c, d_end_c) ==
  IF tasks = <<>> THEN acc
  ELSE Walk(WalkTask(acc, Head(tasks), d_start_c, d_end_c), Tail(tasks),
            d_start_c, d_end_c)

\* app.py:144-188, the body of the loop over the groups: the DailyStat of
\* one (technician, date) group
DailyStat(frame, key, c) ==
  LET tech_tasks == SortByStart(InGroup(frame, key))
      d_start_c == Combine(key[2], c.day_start_calc)
      d_end_c == Combine(key[2], c.day_end_calc)
      acc == Walk([idle |-> 0, travel |-> 0, service |-> 0,
                   current_time |-> d_start_c], tech_tasks, d_start_c, d_end_c)
      tail == IF acc.current_time < d_end_c THEN d_end_c - acc.current_time ELSE 0
  IN [Technician |-> key[1], Date |-> key[2],
      Idle_Secs |-> acc.idle + tail,
      Travel_Secs |-> acc.travel,
      Service_Secs |-> acc.service]

\* ------------------------------------------------------------ aggregation
\* minutes rounded to the nearest instead of truncated
MinsRounded(secs) == (secs + 30) \div SecsPerMin

\* app.py:198-199, (secs / 60).astype(int): truncation to whole minutes
Mins(secs) == secs \div SecsPerMin

\* the integer nearest to num / den (den > 0, num >= 0), ties to even
RoundHalfEven(num, den) ==
  LET q == num \div den
      r == num % den
  IN IF 2 * r < den THEN q
     ELSE IF 2 * r > den THEN q + 1
     ELSE IF q % 2 = 0 THEN q ELSE q + 1

\* round(num / den * 100, 1) in tenths of a percent, den # 0
RoundTenths(num, den) ==
  IF den > 0
  THEN (IF num >= 0 THEN RoundHalfEven(1000 * num, den)
        ELSE 0 - RoundHalfEven(1000 * (0 - num), den))
  ELSE (IF num >= 0 THEN 0 - RoundHalfEven(1000 * num, 0 - den)
        ELSE RoundHalfEven(1000 * (0 - num), 0 - den))

\* app.py:212-225, round(mins / total_work_mins * 100, 1) on pandas columns:
\* a zero denominator raises nothing and yields inf (or nan for 0 / 0)
Pct(mins, total_work_mins) ==
  IF total_work_mins = 0
  THEN [kind |-> IF mins = 0 THEN "nan" ELSE "inf", tenths |-> 0]
  ELSE [kind |-> "finite", tenths |-> RoundTenths(mins, total_work_mins)]

\* the denominator left in minutes
TotalPossibleMins(tech_days, total_work_mins_per_day) ==
  tech_days * total_work_mins_per_day

\* app.py:227
TotalPossibleSecs(tech_days, total_work_mins_per_day) ==
  tech_days * total_work_mins_per_day * SecsPerMin

\* app.py:229-239, one entry of global_stats
GlobalPct(secs, total_possible_secs) ==
  IF total_possible_secs > 0 THEN RoundTenths(secs, total_possible_secs) ELSE 0

TechsOf(stats) == { s.Technician : s \in Range(stats) }

RECURSIVE SortTechs(_)
SortTechs(S) ==
  IF S = {} THEN <<>>
  ELSE LET first == CHOOSE t \in S : \A o \in S \ {t} : TechRank(t) < TechRank(o)
       IN <<first>> \o SortTechs(S \ {first})

\* the days counted without drop_duplicates: one per interval row
DaysWorkedRows(frame, tech) ==
  Len(SelectSeq(frame, LAMBDA x : x.Technician = tech))

\* app.py:202-208, tech_days_worked: distinct dates of a technician in plot_df
DaysWorked(frame, tech) ==
  Cardinality({ r.Date : r \in { x \in Range(frame) : x.Technician = tech } })

\* app.py:192-225, the agg_stats row of one technician
AggRow(stats, frame, tech, total_work_mins_per_day) ==
  LET mine == SelectSeq(stats, LAMBDA s : s.Technician = tech)
      idle_secs == SumOver(mine, [s \in Range(stats) |-> s.Idle_Secs])
      travel_secs == SumOver(mine, [s \in Range(stats) |-> s.Travel_Secs])
      service_secs == SumOver(mine, [s \in Range(stats) |-> s.Service_Secs])
      days == DaysWorked(frame, tech)
      total == days * total_work_mins_per_day
  IN [Technician |-> tech,
      Idle_Secs |-> idle_secs, Travel_Secs |-> travel_secs,
      Service_Secs |-> service_secs,
      Idle_Mins |-> Mins(idle_secs), Travel_Mins |-> Mins(travel_secs),
      Days |-> days, Total_Work_Mins |-> total,
      Idle_Pct |-> Pct(Mins(idle_secs), total),
      Travel_Pct |-> Pct(Mins(travel_secs), total),
      Opt_Pct |-> Pct(Mins(idle_secs) + Mins(travel_secs), total)]

\* app.py:192-225, agg_stats: one row per technician, in label order
AggStats(stats, frame, total_work_mins_per_day) ==
  LET techs == SortTechs(TechsOf(stats))
  IN [i \in 1..Len(techs) |->
        AggRow(stats, frame, techs[i], total_work_mins_per_day)]

\* app.py:83 and app.py:118, return pd.DataFrame(), 0, 0, 0, 0 (the fifth
\* value is the number 0, not a table: plot_is_frame is FALSE)
EmptyResult ==
  [agg_stats |-> <<>>, idle_pct |-> 0, travel_pct |-> 0, service_pct |-> 0,
   plot_df |-> <<>>, plot_is_frame |-> FALSE]

\* app.py:227-247, the returned tuple
Result(stats, frame, idle, travel, service, tech_days, c) ==
  LET total_possible_secs ==
        TotalPossibleSecs(tech_days, c.total_work_mins_per_day)
  IN [agg_stats |-> AggStats(stats, frame, c.total_work_mins_per_day),
      idle_pct |-> GlobalPct(idle, total_possible_secs),
      travel_pct |-> GlobalPct(travel, total_possible_secs),
      service_pct |-> GlobalPct(service, total_possible_secs),
      plot_df |-> frame, plot_is_frame |-> TRUE]

\* app.py:79-247, the whole call as a function of its arguments: how it
\* ends ("done" or "raised") and what it returns
Outcome(d, c) ==
  IF d = <<>> THEN [pc |-> "done", ret |-> EmptyResult]
  ELSE IF Flatten(d) = <<>> THEN [pc |-> "done", ret |-> EmptyResult]
  ELSE LET frame == MergeValid(AddDurations(Flatten(d)))
           keys == GroupKeys(frame)
           stats == [i \in 1..Len(keys) |-> DailyStat(frame, keys[i], c)]
       IN IF stats = <<>> THEN [pc |-> "raised", ret |-> EmptyResult]
          ELSE [pc |-> "done",
                ret |-> Result(stats, frame,
                               SumOver(stats, [s \in Range(stats) |-> s.Idle_Secs]),
                               SumOver(stats, [s \in Range(stats) |-> s.Travel_Secs]),
                               SumOver(stats, [s \in Range(stats) |-> s.Service_Secs]),
                               Len(stats), c)]

\* ----------------------------------------------------------- the callers
\* app.py:256, the focus dates of the daily view
FocusDates == { 0, 1 }

OnDate(t, date) == t # Null /\ DateOf(t) = date

\* app.py:328-331, daily_df: the visits of the fetched month that fall on
\* the focus date
DailyRows(d, date) ==
  SelectSeq(d, LAMBDA row : \/ OnDate(row.StartedTravel, date)
                            \/ OnDate(row.ArrivalTimeReal, date)
                            \/ OnDate(row.DepartureTimeReal, date))

\* ------------------------------------------------------------------ state
VARIABLES
  df,                  \* the dataset argument of the running call
  cfg,                 \* day_start_calc, day_end_calc, total_work_mins_per_day
  pc,                  \* "idle", "extract", "filter", "metrics", "done", "raised"
  plot_df,             \* rows, then plot_df
  groups,              \* the (technician, date) groups still to iterate
  stats_data,
  global_idle_secs,
  global_travel_secs,
  global_service_secs,
  total_tech_days,
  ret,                 \* the returned tuple
  first_call,          \* the first completed call: its arguments and outcome
  between              \* a call on another dataset was made since first_call

vars ==
  <<df, cfg, pc, plot_df, groups, stats_data, global_idle_secs,
    global_travel_secs, global_service_secs, total_tech_days, ret,
    first_call, between>>

locals ==
  <<plot_df, groups, stats_data, global_idle_secs, global_travel_secs,
    global_service_secs, total_tech_days>>

DefaultConfig == Config(DAY_START_CALC, DAY_END_CALC, TOTAL_WORK_MINS_PER_DAY)

Init ==
  /\ df = <<>>
  /\ cfg = DefaultConfig
  /\ pc = "idle"
  /\ plot_df = <<>>
  /\ groups = <<>>
  /\ stats_data = <<>>
  /\ global_idle_secs = 0
  /\ global_travel_secs = 0
  /\ global_service_secs = 0
  /\ total_tech_days = 0
  /\ ret = EmptyResult
  /\ first_call = [set |-> FALSE, df |-> <<>>, cfg |-> DefaultConfig,
                   pc |-> "idle", ret |-> EmptyResult]
  /\ between = FALSE

\* The datasets the next call may be given: any dataset for the first call
\* (the monthly view); afterwards the same dataset again (the script reruns
\* on the cached fetch) or its daily views.
NextDatasets ==
  IF first_call.set
  THEN { first_call.df } \cup { DailyRows(first_call.df, dt) : dt \in FocusDates }
  ELSE Datasets

NextConfigs == IF first_call.set THEN { first_call.cfg } ELSE Configs

\* app.py:79-83, the call and its first test
Invoke(d, c) ==
  /\ pc = "idle"
  /\ df' = d
  /\ cfg' = c
  /\ between' = (between \/ (first_call.set /\ d # first_call.df))
  /\ IF d = <<>>
     THEN pc' = "done" /\ ret' = EmptyResult
     ELSE pc' = "extract" /\ ret' = EmptyResult
  /\ UNCHANGED <<locals, first_call>>

\* the extraction without the test of app.py:117
ExtractIntervalsUnchecked ==
  /\ pc = "extract"
  /\ plot_df' = Flatten(df)
  /\ pc' = "filter"
  /\ UNCHANGED <<df, cfg, ret, groups, stats_data, global_idle_secs,
                 global_travel_secs, global_service_secs, total_tech_days,
                 first_call, between>>

\* app.py:85-118
ExtractIntervals ==
  /\ pc = "extract"
  /\ plot_df' = Flatten(df)
  /\ IF plot_df' = <<>>
     THEN pc' = "done" /\ ret' = EmptyResult
     ELSE pc' = "filter" /\ UNCHANGED ret
  /\ UNCHANGED <<df, cfg, groups, stats_data, global_idle_secs,
                 global_travel_secs, global_service_secs, total_tech_days,
                 first_call, between>>

\* the same step with the accumulators of the previous call left in place
FilterMinimalDataStale ==
  /\ pc = "filter"
  /\ plot_df' = MergeValid(AddDurations(plot_df))
  /\ groups' = GroupKeys(plot_df')
  /\ pc' = "metrics"
  /\ UNCHANGED <<df, cfg, ret, first_call, between, stats_data,
                 global_idle_secs, global_travel_secs, global_service_secs,
                 total_tech_days>>

\* app.py:120-143
FilterMinimalData ==
  /\ pc = "filter"
  /\ plot_df' = MergeValid(AddDurations(plot_df))
  /\ global_idle_secs' = 0
  /\ global_travel_secs' = 0
  /\ global_service_secs' = 0
  /\ total_tech_days' = 0
  /\ stats_data' = <<>>
  /\ groups' = GroupKeys(plot_df')
  /\ pc' = "metrics"
  /\ UNCHANGED <<df, cfg, ret, first_call, between>>

\* app.py:144-188, one iteration of the loop over the groups
ProcessGroup ==
  /\ pc = "metrics"
  /\ groups # <<>>
  /\ LET stat == DailyStat(plot_df, Head(groups), cfg)
     IN /\ global_idle_secs' = global_idle_secs + stat.Idle_Secs
        /\ global_travel_secs' = global_travel_secs + stat.Travel_Secs
        /\ global_service_secs' = global_service_secs + stat.Service_Secs
        /\ total_tech_days' = total_tech_days + 1
        /\ stats_data' = Append(stats_data, stat)
  /\ groups' = Tail(groups)
  /\ UNCHANGED <<df, cfg, pc, plot_df, ret, first_call, between>>

\* app.py:190-247; pd.DataFrame([]).groupby("Technician") raises KeyError
\* when no group was iterated
Aggregate ==
  /\ pc = "metrics"
  /\ groups = <<>>
  /\ IF stats_data = <<>>
     THEN pc' = "raised" /\ UNCHANGED ret
     ELSE /\ pc' = "done"
          /\ ret' = Result(stats_data, plot_df, global_idle_secs,
                           global_travel_secs, global_service_secs,
                           total_tech_days, cfg)
  /\ UNCHANGED <<df, cfg, locals, first_call, between>>

\* app.py:278 and app.py:337 (the value reaches the caller), app.py:507 (the
\* exception does)
Return ==
  /\ pc \in { "done", "raised" }
  /\ pc' = "idle"
  /\ first_call' = IF first_call.set THEN first_call
                   ELSE [set |-> TRUE, df |-> df, cfg |-> cfg,
                         pc |-> pc, ret |-> ret]
  /\ UNCHANGED <<df, cfg, locals, ret, between>>

Next ==
  \/ \E d \in NextDatasets, c \in NextConfigs : Invoke(d, c)
  \/ ExtractIntervals
  \/ FilterMinimalData
  \/ ProcessGroup
  \/ Aggregate
  \/ Return

Spec == Init /\ [][Next]_vars

\* ======================================================================
\* Properties
\* ======================================================================
Terminal == pc \in { "done", "raised" }

Techs == { TechLabel(v) : v \in Visits }

AllKeys == Techs \X FocusDates

RECURSIVE SetSum(_, _)
SetSum(S, F) ==
  IF S = {} THEN 0
  ELSE LET x == CHOOSE y \in S : TRUE IN F[x] + SetSum(S \ {x}, F)

\* the two candidate intervals of a visit, as the data model names them
Candidates(row) ==
  { [Technician |-> TechLabel(row), Task |-> "Travel",
     Start |-> row.StartedTravel, End |-> row.ArrivalTimeReal],
    [Technician |-> TechLabel(row), Task |-> "Service",
     Start |-> row.ArrivalTimeReal, End |-> row.DepartureTimeReal] }

Valid(c) == c.Start # Null /\ c.End # Null /\ c.Start < c.End

\* raw (unclipped) seconds and number of the valid intervals of a dataset
\* that belong to a (technician, date) pair
RawOfRow(row, key) ==
  SetSum({ c \in Candidates(row) :
             Valid(c) /\ c.Technician = key[1] /\ DateOf(c.Start) = key[2] },
         [c \in Candidates(row) |-> c.End - c.Start])

RawSecs(d, key) == SumOver(d, [row \in Range(d) |-> RawOfRow(row, key)])

CountOfRow(row, key) ==
  Cardinality({ c \in Candidates(row) :
                  Valid(c) /\ c.Technician = key[1] /\ DateOf(c.Start) = key[2] })

RawCount(d, key) == SumOver(d, [row \in Range(d) |-> CountOfRow(row, key)])

Qualifies(d, key) ==
  RawCount(d, key) > 0 /\ RawSecs(d, key) >= MinActiveMins * SecsPerMin

Usable(c) ==
  c.day_end_calc > c.day_start_calc /\ c.total_work_mins_per_day > 0

WindowSecs(c) == c.day_end_calc - c.day_start_calc

ZeroResult(r) ==
  r.agg_stats = <<>> /\ r.idle_pct = 0 /\ r.travel_pct = 0 /\ r.service_pct = 0

\* ---------------------------------------------------------------- C1
\* C1 (as claimed): every DailyStat emitted for a retained (technician,
\* date) group has Idle Secs + Travel Secs + Service Secs equal to the
\* length of the calculation window, whatever the group's intervals are.
C1_Conservation ==
  Usable(cfg) /\ pc \in { "metrics", "done" } =>
    \A i \in 1..Len(stats_data) :
      stats_data[i].Idle_Secs + stats_data[i].Travel_Secs
        + stats_data[i].Service_Secs = WindowSecs(cfg)

\* ---------------------------------------------------------------- C2
\* the part of the window covered by at least one interval of a group
ClippedOf(frame, key, c) ==
  { iv \in { <<Max(r.Start, Combine(key[2], c.day_start_calc)),
               Min(r.End, Combine(key[2], c.day_end_calc))>> :
             r \in Range(InGroup(frame, key)) } : iv[1] < iv[2] }

CoveredSecs(frame, key, c) ==
  LET ivs == ClippedOf(frame, key, c)
      pts == { iv[1] : iv \in ivs } \cup { iv[2] : iv \in ivs }
      seg == [p \in pts |->
                LET later == { q \in pts : q > p }
                IN IF later = {} THEN 0
                   ELSE LET n == CHOOSE q \in later : \A o \in later : q <= o
                        IN IF \E iv \in ivs : iv[1] <= p /\ n <= iv[2]
                           THEN n - p ELSE 0]
  IN SetSum(pts, seg)

OverlapScenario ==
  << Visit("A", At(0, 9, 0, 0), At(0, 10, 0, 0), Null),
     Visit("A", Null, At(0, 9, 30, 0), At(0, 9, 45, 0)) >>

\* C2 (as claimed): overlapping intervals are not double-counted, so the
\* Travel Secs and Service Secs of a group add up to the covered part of
\* the window; with travel 09:00-10:00 and service 09:30-09:45 in an
\* 08:00-17:00 window the service adds 0 seconds and Travel Secs is 3600.
C2_NoDoubleCount ==
  Usable(cfg) /\ pc = "done" /\ ret.plot_is_frame =>
    /\ \A i \in 1..Len(stats_data) :
         stats_data[i].Travel_Secs + stats_data[i].Service_Secs
           = CoveredSecs(plot_df, <<stats_data[i].Technician, stats_data[i].Date>>, cfg)
    /\ (df = OverlapScenario /\ cfg = DefaultConfig =>
          /\ Len(stats_data) = 1
          /\ stats_data[1].Service_Secs = 0
          /\ stats_data[1].Travel_Secs = 3600)

\* ---------------------------------------------------------------- C3
RowsOfKey(frame, key) == Len(InGroup(frame, key))

StatsOfKey(stats, key) ==
  Cardinality({ i \in 1..Len(stats) :
                  stats[i].Technician = key[1] /\ stats[i].Date = key[2] })

QualifyingDates(d, tech) == { dt \in FocusDates : Qualifies(d, <<tech, dt>>) }

\* C3: once the filter has run, a (technician, date) pair whose valid
\* intervals sum to less than 5 raw minutes has no row in the interval
\* table and no DailyStat, and is not counted in Days or total_tech_days; a
\* technician with no qualifying date has no aggregated row; a pair summing
\* to 5 minutes or more keeps all its rows and gets its DailyStat.
C3_FilterCompleteness ==
  /\ pc = "metrics" \/ (pc = "done" /\ ret.plot_is_frame) =>
       \A key \in AllKeys :
         IF Qualifies(df, key)
         THEN /\ RowsOfKey(plot_df, key) = RawCount(df, key)
              /\ StatsOfKey(stats_data, key) =
                   (IF pc = "done" \/ \A i \in 1..Len(groups) : groups[i] # key
                    THEN 1 ELSE 0)
         ELSE /\ RowsOfKey(plot_df, key) = 0
              /\ StatsOfKey(stats_data, key) = 0
  /\ pc = "done" /\ ret.plot_is_frame =>
       /\ ret.plot_df = plot_df
       /\ total_tech_days = Cardinality({ key \in AllKeys : Qualifies(df, key) })
       /\ \A tech \in Techs :
            LET mine == { i \in 1..Len(ret.agg_stats) :
                            ret.agg_stats[i].Technician = tech }
            IN IF QualifyingDates(df, tech) = {} THEN mine = {}
               ELSE /\ Cardinality(mine) = 1
                    /\ \A i \in mine :
                         ret.agg_stats[i].Days =
                           Cardinality(QualifyingDates(df, tech))

\* a returned result from which one pair was filtered out while a pair of
\* exactly 5 minutes was kept
C3_Witness ==
  /\ pc = "done" /\ ret.plot_is_frame
  /\ \E key \in AllKeys :
       RawCount(df, key) > 0 /\ ~Qualifies(df, key) /\ RowsOfKey(ret.plot_df, key) = 0
  /\ \E key \in AllKeys :
       /\ RawSecs(df, key) = MinActiveMins * SecsPerMin
       /\ RowsOfKey(ret.plot_df, key) > 0

\* ---------------------------------------------------------------- C4
HasValidInterval(d) ==
  \E i \in 1..Len(d) : \E c \in Candidates(d[i]) : Valid(c)

AllFiltered(d) ==
  HasValidInterval(d) /\ \A key \in AllKeys : ~Qualifies(d, key)

\* C4 (as claimed): when there is a valid interval but the filter removes
\* every (technician, date) pair, the call ends normally with an empty
\* aggregated table and the three global percentages equal to 0.
C4_AllFilteredReturnsEmpty ==
  Usable(cfg) /\ AllFiltered(df) /\ Terminal => pc = "done" /\ ZeroResult(ret)

\* ---------------------------------------------------------------- C5
\* C5: on an empty dataset, or one in which no visit has a valid interval,
\* the call never raises and never reaches the filter; it returns an empty
\* aggregated table and the three global percentages equal to 0.
C5_NoIntervalReturnsEmpty ==
  ~HasValidInterval(df) =>
    /\ pc \in { "idle", "extract", "done" }
    /\ pc = "done" => ZeroResult(ret)

\* a finished call on a non-empty dataset none of whose pairs is valid
C5_Witness ==
  pc = "done" /\ df # <<>> /\ ~HasValidInterval(df) /\ ZeroResult(ret)

\* ---------------------------------------------------------------- C6
\* C6 (as claimed): with a window whose end is not after its start, or
\* with total_work_mins_per_day <= 0, a call whose filtered dataset is not
\* empty does not return a result, and no percentage is ever computed over
\* a zero denominator.
C6_UnusableConfigFails ==
  /\ ~Usable(cfg) /\ (\E key \in AllKeys : Qualifies(df, key)) => pc # "done"
  /\ pc = "done" =>
       \A i \in 1..Len(ret.agg_stats) : ret.agg_stats[i].Total_Work_Mins # 0

\* ---------------------------------------------------------------- C7
\* the dataset with one candidate interval of row i removed: its endpoint
\* that no other interval shares is set to the missing value
NullOut(d, i, task) ==
  [d EXCEPT ![i] =
     IF task = "Travel" THEN [@ EXCEPT !.StartedTravel = Null]
     ELSE [@ EXCEPT !.DepartureTimeReal = Null]]

PairOf(row, task) ==
  IF task = "Travel" THEN <<row.StartedTravel, row.ArrivalTimeReal>>
  ELSE <<row.ArrivalTimeReal, row.DepartureTimeReal>>

Dead(row, task) ==
  LET p == PairOf(row, task)
  IN p[1] = Null \/ p[2] = Null \/ p[1] >= p[2]

Emitted(frame, row, task) ==
  \E r \in Range(frame) :
    /\ r.Technician = TechLabel(row)
    /\ r.Task = task
    /\ r.Start = PairOf(row, task)[1]
    /\ r.End = PairOf(row, task)[2]

\* C7: an interval is emitted iff both endpoints are present and start <
\* end; and when a call has ended, the call on the dataset with any one
\* dead travel or service pair removed ends the same way with the same
\* aggregated table, global percentages and interval table.
C7_DeadIntervalInvariance ==
  /\ pc = "filter" =>
       \A i \in 1..Len(df) : \A task \in { "Travel", "Service" } :
         Emitted(plot_df, df[i], task) <=> ~Dead(df[i], task)
  /\ Terminal =>
       \A i \in 1..Len(df) : \A task \in { "Travel", "Service" } :
         Dead(df[i], task) =>
           Outcome(NullOut(df, i, task), cfg) = [pc |-> pc, ret |-> ret]

\* a call that returned statistics for a dataset holding a zero-length or
\* inverted pair, which the removal turns into a different dataset
C7_Witness ==
  /\ pc = "done" /\ ret.agg_stats # <<>>
  /\ \E i \in 1..Len(df) : \E task \in { "Travel", "Service" } :
       /\ Dead(df[i], task)
       /\ PairOf(df[i], task)[1] # Null /\ PairOf(df[i], task)[2] # Null
       /\ NullOut(df, i, task) # df
       /\ \E r \in Range(ret.plot_df) : r.Technician = TechLabel(df[i])

\* ---------------------------------------------------------------- C8
EqualDays(agg) ==
  \A i, j \in 1..Len(agg) : agg[i].Days = agg[j].Days

SumIdlePct(agg) == SumOver(agg, [r \in Range(agg) |-> r.Idle_Pct.tenths])

SumTravelPct(agg) == SumOver(agg, [r \in Range(agg) |-> r.Travel_Pct.tenths])

UniformResult ==
  /\ pc = "done" /\ ret.agg_stats # <<>>
  /\ cfg.total_work_mins_per_day > 0
  /\ EqualDays(ret.agg_stats)

\* C8 (as claimed): when all technicians of the result have the same Days,
\* the global idle (travel) percentage equals the average of the
\* per-technician Idle % (Travel %).
C8_GlobalEqualsAverage ==
  UniformResult =>
    /\ Len(ret.agg_stats) * ret.idle_pct = SumIdlePct(ret.agg_stats)
    /\ Len(ret.agg_stats) * ret.travel_pct = SumTravelPct(ret.agg_stats)

\* |n * g - sum| <= n * (1 + 1000 / (days * total)) tenths of a percent
Near(n, g, sum, days, total) ==
  Abs(n * g - sum) * days * total <= n * (days * total + 1000)

\* C8 (amended): for a positive total_work_mins_per_day and technicians
\* that all have the same Days, the global idle (travel) percentage differs
\* from the average of the per-technician Idle % (Travel %) by at most
\* 0.1 + 100 / (Days * total_work_mins_per_day) percentage points.
C8_GlobalNearAverage ==
  UniformResult =>
    LET n == Len(ret.agg_stats)
        days == ret.agg_stats[1].Days
        total == cfg.total_work_mins_per_day
    IN /\ Near(n, ret.idle_pct, SumIdlePct(ret.agg_stats), days, total)
       /\ Near(n, ret.travel_pct, SumTravelPct(ret.agg_stats), days, total)

\* two technicians with equal Days whose average Idle % is not the global one
C8_Witness ==
  /\ UniformResult
  /\ Len(ret.agg_stats) = 2
  /\ 2 * ret.idle_pct # SumIdlePct(ret.agg_stats)

\* ---------------------------------------------------------------- C9
SecsOfTech(stats, tech, F) ==
  SumOver(SelectSeq(stats, LAMBDA x : x.Technician = tech), F)

Truncated(mins, secs) ==
  mins * SecsPerMin <= secs /\ secs < (mins + 1) * SecsPerMin

\* pct is num / den * 100 rounded to one decimal
Rounded(pct, num, den) ==
  IF den = 0 THEN pct.kind # "finite"
  ELSE pct.kind = "finite" /\ 2 * Abs(pct.tenths * den - 1000 * num) <= Abs(den)

ServiceScenario == << Visit("A", At(0, 8, 50, 0), At(0, 9, 0, 0), At(0, 9, 40, 0)) >>

\* C9: Idle Mins and Travel Mins are the technician's seconds summed over
\* the qualifying dates, truncated to whole minutes; Idle %, Travel % and
\* Opt % are idle, travel and idle + travel minutes over Total Work Mins
\* times 100 rounded to one decimal. Travel 08:50-09:00 and service
\* 09:00-09:40 in an 08:00-17:00 window with 540 minutes give travel 10
\* min, service 40 min, idle 490 min, 90.7 %, 1.9 % and 92.6 %.
C9_MinutesAndPercentages ==
  pc = "done" =>
    /\ \A i \in 1..Len(ret.agg_stats) :
         LET r == ret.agg_stats[i]
         IN /\ Truncated(r.Idle_Mins,
                 SecsOfTech(stats_data, r.Technician,
                            [x \in Range(stats_data) |-> x.Idle_Secs]))
            /\ Truncated(r.Travel_Mins,
                 SecsOfTech(stats_data, r.Technician,
                            [x \in Range(stats_data) |-> x.Travel_Secs]))
            /\ Rounded(r.Idle_Pct, r.Idle_Mins, r.Total_Work_Mins)
            /\ Rounded(r.Travel_Pct, r.Travel_Mins, r.Total_Work_Mins)
            /\ Rounded(r.Opt_Pct, r.Idle_Mins + r.Travel_Mins, r.Total_Work_Mins)
    /\ (df = ServiceScenario /\ cfg = DefaultConfig =>
          /\ Len(ret.agg_stats) = 1
          /\ ret.agg_stats[1].Travel_Mins = 10
          /\ ret.agg_stats[1].Service_Secs = 40 * SecsPerMin
          /\ ret.agg_stats[1].Idle_Mins = 490
          /\ ret.agg_stats[1].Idle_Pct = [kind |-> "finite", tenths |-> 907]
          /\ ret.agg_stats[1].Travel_Pct = [kind |-> "finite", tenths |-> 19]
          /\ ret.agg_stats[1].Opt_Pct = [kind |-> "finite", tenths |-> 926])

\* the scenario's call has returned
C9_Witness ==
  pc = "done" /\ df = ServiceScenario /\ cfg = DefaultConfig
    /\ Len(ret.agg_stats) = 1

\* --------------------------------------------------------------- C10
\* C10: a later call on the dataset and configuration of the first call
\* ends as the first call did and returns the same outputs, whatever calls
\* were made in between; and no step of a call changes its dataset or
\* configuration.
C10_Determinism ==
  /\ [](Terminal /\ first_call.set /\ df = first_call.df /\ cfg = first_call.cfg
          => pc = first_call.pc /\ ret = first_call.ret)
  /\ [][pc # "idle" => df' = df /\ cfg' = cfg]_vars

\* the first dataset was computed again after a call on another dataset
C10_Witness ==
  /\ pc = "done" /\ first_call.set /\ between
  /\ df = first_call.df /\ cfg = first_call.cfg
  /\ ret.agg_stats # <<>>
  /\ Len(stats_data) > 1

\* --------------------------------------------------------------- C11
AggRowsOf(agg, tech) == { i \in 1..Len(agg) : agg[i].Technician = tech }

SumDays(agg) == SumOver(agg, [r \in Range(agg) |-> r.Days])

\* C11: in a returned aggregated table every row carries a normalized
\* label (never the missing one); a technician has exactly one row when it
\* has a qualifying date and none otherwise; Days is the number of its
\* distinct qualifying dates; Total Work Mins is Days times
\* total_work_mins_per_day whatever the window is; and total_tech_days is
\* the sum of Days over the rows.
C11_MembershipAndAvailability ==
  pc = "done" /\ ret.plot_is_frame =>
    /\ \A i \in 1..Len(ret.agg_stats) :
         /\ ret.agg_stats[i].Technician \in Techs
         /\ ret.agg_stats[i].Technician # NoTech
         /\ ret.agg_stats[i].Total_Work_Mins =
              ret.agg_stats[i].Days * cfg.total_work_mins_per_day
    /\ \A tech \in Techs :
         /\ Cardinality(AggRowsOf(ret.agg_stats, tech)) =
              (IF QualifyingDates(df, tech) = {} THEN 0 ELSE 1)
         /\ \A i \in AggRowsOf(ret.agg_stats, tech) :
              ret.agg_stats[i].Days = Cardinality(QualifyingDates(df, tech))
    /\ total_tech_days = SumDays(ret.agg_stats)

\* a technician with two qualifying dates and several intervals, under a
\* total_work_mins_per_day that differs from the window length
C11_Witness ==
  /\ pc = "done" /\ ret.plot_is_frame
  /\ cfg.total_work_mins_per_day > 0
  /\ cfg.total_work_mins_per_day * SecsPerMin # WindowSecs(cfg)
  /\ \E i \in 1..Len(ret.agg_stats) :
       /\ ret.agg_stats[i].Days = 2
       /\ ret.agg_stats[i].Total_Work_Mins = 2 * cfg.total_work_mins_per_day
  /\ total_tech_days = 2

\* --------------------------------------------------------------- C12
\* seconds of one candidate interval inside the window of a date
ClippedLen(cand, date, c) ==
  Max(0, Min(cand.End, Combine(date, c.day_end_calc))
           - Max(cand.Start, Combine(date, c.day_start_calc)))

\* the clipped seconds of the valid intervals of one task that start on the
\* date of a (technician, date) pair
ClippedOfRow(row, key, task, c) ==
  SetSum({ cand \in Candidates(row) :
             /\ Valid(cand) /\ cand.Task = task
             /\ cand.Technician = key[1] /\ DateOf(cand.Start) = key[2] },
         [cand \in Candidates(row) |->
            IF Valid(cand) THEN ClippedLen(cand, key[2], c) ELSE 0])

ClippedSecs(d, key, task, c) ==
  SumOver(d, [row \in Range(d) |-> ClippedOfRow(row, key, task, c)])

StatsAt(stats, key) ==
  { i \in 1..Len(stats) :
      stats[i].Technician = key[1] /\ stats[i].Date = key[2] }

\* C12: a (technician, date) pair gets its DailyStat exactly when the raw
\* durations of the intervals starting on that date reach 5 minutes;
\* Travel Secs and Service Secs are the durations of those intervals
\* clipped to that date's window, so a pair whose activity lies outside the
\* window is retained with Travel Secs = Service Secs = 0 and Idle Secs the
\* whole window (0 for a window that does not end after its start), and no
\* date gets anything from an interval that started the day before.
C12_RawFilterClippedAccounting ==
  pc = "done" /\ ret.plot_is_frame =>
    /\ \A i \in 1..Len(stats_data) :
         <<stats_data[i].Technician, stats_data[i].Date>> \in AllKeys
    /\ \A r \in Range(ret.plot_df) : r.Date = DateOf(r.Start)
    /\ \A key \in AllKeys :
         IF Qualifies(df, key)
         THEN /\ Cardinality(StatsAt(stats_data, key)) = 1
              /\ \A i \in StatsAt(stats_data, key) :
                   /\ stats_data[i].Travel_Secs = ClippedSecs(df, key, "Travel", cfg)
                   /\ stats_data[i].Service_Secs = ClippedSecs(df, key, "Service", cfg)
                   /\ (stats_data[i].Travel_Secs = 0 /\ stats_data[i].Service_Secs = 0
                         => stats_data[i].Idle_Secs = Max(0, WindowSecs(cfg)))
                   /\ \E j \in 1..Len(ret.agg_stats) :
                        /\ ret.agg_stats[j].Technician = key[1]
                        /\ ret.agg_stats[j].Days >= 1
         ELSE StatsAt(stats_data, key) = {}

\* a returned result with a pair retained although all its activity is
\* outside the window, and an interval that runs past midnight into the
\* next date's window without that date getting a DailyStat
C12_Witness ==
  /\ pc = "done" /\ ret.plot_is_frame /\ WindowSecs(cfg) > 0
  /\ \E i \in 1..Len(stats_data) :
       /\ stats_data[i].Travel_Secs = 0 /\ stats_data[i].Service_Secs = 0
       /\ stats_data[i].Idle_Secs = WindowSecs(cfg)
       /\ RawSecs(df, <<stats_data[i].Technician, stats_data[i].Date>>)
            >= MinActiveMins * SecsPerMin
  /\ \E r \in Range(ret.plot_df) :
       /\ r.End > Combine(r.Date + 1, cfg.day_start_calc)
       /\ StatsAt(stats_data, <<r.Technician, r.Date + 1>>) = {}

====
